---- MODULE Spec2Model ----
(***************************************************************************)
(* The federated search of src/app.py: pco_api_call (lines 28-36) and      *)
(* search_context (lines 38-131).                                          *)
(*                                                                         *)
(* Text is modelled as follows.  A query is a sequence of one-character    *)
(* strings, so that strip() and split(' ') are computed.  A line appended  *)
(* to context_data is a record [label, text]: label is the literal prefix  *)
(* of the f-string, text the joined names that follow it.  A line appended *)
(* to debug_log is a record [msg, args, text]: msg is the f-string's       *)
(* literal text (without its leading emoji) with {} for each interpolated  *)
(* value, args the interpolated values, text the formatted line.  The two  *)
(* returned strings are built from these by str.join.                      *)
(***************************************************************************)
EXTENDS Integers, Sequences, FiniteSets, TLC

\* Longest generated query (characters).
MaxLen == 3

\* The Streamlit sessions that may be executing search_context.
Runs == {"s1", "s2"}

VARIABLES
  pc,            \* per run: where search_context stands
  query,         \* per run: the argument of search_context
  clean_query,   \* per run: local clean_query (line 47)
  first_word,    \* per run: local first_word (line 73)
  found_people,  \* per run: local found_people (line 61)
  context_data,  \* per run: local context_data (line 43)
  debug_log,     \* per run: local debug_log (line 44)
  calls,         \* per run: the requests handed to requests.get, in order
  results,       \* per run: what pco_api_call returned for each of them
  ret            \* per run: what search_context returned or raised

vars == <<pc, query, clean_query, first_word, found_people, context_data,
          debug_log, calls, results, ret>>

----------------------------------------------------------------------------
\* Python values

\* dict.get(k, dflt)
Get(d, k, dflt) == IF k \in DOMAIN d THEN d[k] ELSE dflt

RECURSIVE Join(_, _)
\* sep.join(items)
Join(items, sep) ==
  IF items = <<>> THEN ""
  ELSE IF Len(items) = 1 THEN items[1]
  ELSE items[1] \o sep \o Join(Tail(items), sep)

\* items[:n]
Take(items, n) == SubSeq(items, 1, IF Len(items) < n THEN Len(items) ELSE n)

\* str.isspace() of one character
IsSpace(c) == c \in {" ", "\t", "\n"}

RECURSIVE LStrip(_)
LStrip(s) == IF s # <<>> /\ IsSpace(Head(s)) THEN LStrip(Tail(s)) ELSE s

RECURSIVE RStrip(_)
RStrip(s) ==
  IF s # <<>> /\ IsSpace(s[Len(s)]) THEN RStrip(SubSeq(s, 1, Len(s) - 1)) ELSE s

\* str.strip()
Strip(s) == RStrip(LStrip(s))

RECURSIVE FirstSegment(_)
\* s.split(' ')[0]: the characters before the first single space
FirstSegment(s) ==
  IF s = <<>> \/ Head(s) = " " THEN <<>> ELSE <<Head(s)>> \o FirstSegment(Tail(s))

----------------------------------------------------------------------------
\* The queries a caller may pass

Alphabet == {"a", " "}

RECURSIVE StringsOfLen(_)
StringsOfLen(n) ==
  IF n = 0 THEN {<<>>}
  ELSE {<<c>> \o s : c \in Alphabet, s \in StringsOfLen(n - 1)}

ExampleQueries ==
  { <<"X">>,
    <<"A", "l", " ", "S", "m", "i", "t", "h">>,
    <<"A", "l", "e", "x">>,
    <<"A", "l", "e", "x", " ", "M", "i", "l", "l", "e", "r">>,
    <<" ", "A", "l", "e", "x", " ", " ", "M", " ">> }

Queries == UNION {StringsOfLen(n) : n \in 0..MaxLen} \cup ExampleQueries

----------------------------------------------------------------------------
\* What the backend may answer.  A response carries its status code, whether
\* its payload decodes (Response.json() raises otherwise) and the decoded body.

TransportError == [exc |-> "Timeout"]

Undecodable(status) == [status_code |-> status, decodable |-> FALSE, body |-> [raw |-> "<html>"]]

Json(status, body) == [status_code |-> status, decodable |-> TRUE, body |-> body]

Failures == {TransportError, Json(403, [errors |-> "Forbidden"]), Json(500, [errors |-> "Server"]),
             Undecodable(200)}

OrgNetwork ==
  Failures \cup
  { Json(200, [data |-> [attributes |-> [name |-> "GO Church"]]]),
    Json(200, [data |-> [attributes |-> [country |-> "US"]]]) }

pAl == [attributes |-> [name |-> "Al Smith", status |-> "Member"]]
pBo == [attributes |-> [name |-> "Bo"]]
pAnon == [attributes |-> [status |-> "Visitor"]]
pBare == [id |-> "7"]

PeopleNetwork ==
  Failures \cup
  { Json(200, [data |-> <<>>]),
    Json(200, [meta |-> "none"]),
    Json(200, [data |-> <<pAl>>]),
    Json(200, [data |-> <<pAl, pBo, pAnon>>]),
    Json(200, [data |-> <<pBare>>]) }

Named(n) == [attributes |-> [name |-> n]]
Unnamed == [attributes |-> [archived |-> "no"]]

NineTypes == << Named("Sunday"), Unnamed, Named("T3"), Named("T4"), Named("T5"),
                Named("T6"), Named("T7"), Named("T8"), Named("T9") >>

ServicesNetwork ==
  Failures \cup
  { Json(200, [data |-> <<>>]),
    Json(200, [data |-> NineTypes]),
    Json(200, [data |-> <<pBare>>]) }

ListingNetwork ==
  Failures \cup
  { Json(200, [data |-> <<>>]),
    Json(200, [data |-> <<Named("Easter"), Unnamed>>]),
    Json(200, [data |-> <<pBare>>]) }

----------------------------------------------------------------------------
\* pco_api_call (lines 28-36) and the truth value of what it returns

None == [none |-> TRUE]

\* requests.get raised: the except clause returns None; else the response
pco_api_call(net) == IF "exc" \in DOMAIN net THEN None ELSE net

\* bool(res), the left operand of `res and res.status_code == ...`: None is
\* false, and requests.Response.__bool__ returns Response.ok, which is False
\* for every status code from 400 to 599.
Truthy(res) == res # None /\ ~(res.status_code >= 400 /\ res.status_code < 600)

\* `res and res.status_code == code`
StatusIs(res, code) == Truthy(res) /\ res.status_code = code

----------------------------------------------------------------------------
\* The lines search_context builds

\* the characters of a query as one string
Str(chars) == Join(chars, "")

\* An f-string appended to debug_log; parts alternates literal text and
\* interpolated values, starting and ending with literal text.
Line(parts) ==
  [msg  |-> Join([i \in 1..((Len(parts) + 1) \div 2) |-> parts[2 * i - 1]], "{}"),
   args |-> [i \in 1..(Len(parts) \div 2) |-> parts[2 * i]],
   text |-> Join(parts, "")]

\* An f-string appended to context_data: a literal label, then joined names
Frag(label, text) == [label |-> label, text |-> text]

FragText(f) == f.label \o f.text

Texts(lines) == [i \in 1..Len(lines) |-> lines[i].text]

FragTexts(frags) == [i \in 1..Len(frags) |-> FragText(frags[i])]

\* What one section of search_context does with the response it got: exc is
\* the exception it raises ("" for none), frags what it appends to
\* context_data, lines what it appends to debug_log.
Effect(frags, lines) == [exc |-> "", frags |-> frags, lines |-> lines]

Raises(exc, lines) == [exc |-> exc, frags |-> <<>>, lines |-> lines]

\* every p['attributes'] of a comprehension succeeds
AllHaveAttributes(records) ==
  \A i \in 1..Len(records) : "attributes" \in DOMAIN records[i]

\* f"{p['attributes'].get('name', 'Unknown')} ({p['attributes'].get('status', 'Unknown')})"
PersonNames(people) ==
  [i \in 1..Len(people) |->
     Get(people[i].attributes, "name", "Unknown") \o " ("
       \o Get(people[i].attributes, "status", "Unknown") \o ")"]

\* [x['attributes'].get('name', 'Unnamed') for x in records]
RecordNames(records) ==
  [i \in 1..Len(records) |-> Get(records[i].attributes, "name", "Unnamed")]

----------------------------------------------------------------------------
\* The sections of search_context, each as a function of the response it got

\* The probe without its else branch: a failed probe leaves no line.
OrgSectionSilentFailure(org_res) ==
  IF StatusIs(org_res, 200)
  THEN IF ~org_res.decodable
       THEN Raises("JSONDecodeError", <<>>)
       ELSE LET org_name ==
                  Get(Get(Get(org_res.body, "data", <<>>), "attributes", <<>>),
                      "name", "Unknown Org")
            IN Effect(<<>>, <<Line(<<"Connected to Organization: **", org_name, "**">>)>>)
  ELSE Effect(<<>>, <<>>)

\* lines 51-55
OrgSection(org_res) ==
  IF StatusIs(org_res, 200)
  THEN IF ~org_res.decodable
       THEN Raises("JSONDecodeError", <<>>)
       ELSE LET org_name ==
                  Get(Get(Get(org_res.body, "data", <<>>), "attributes", <<>>),
                      "name", "Unknown Org")
            IN Effect(<<>>, <<Line(<<"Connected to Organization: **", org_name, "**">>)>>)
  ELSE Effect(<<>>, <<Line(<<"Org Check: Failed to connect to PCO Root.">>)>>)

\* The retry test off by one: a first word of two characters retries too.
ShouldRetryShortWord(word, cleaned) == Len(word) >= 2 /\ word # cleaned

\* The retry test without its second conjunct: a one-word query retries too.
ShouldRetryAnyLongWord(word, cleaned) == Len(word) > 2

\* line 75
ShouldRetry(word, cleaned) == Len(word) > 2 /\ word # cleaned

\* lines 61-91, up to the retry call of line 76.  found is the value
\* found_people has afterwards; retry says that line 76 is reached, and
\* word is first_word once line 73 has run.
PeopleSection(res, cleaned) ==
  IF StatusIs(res, 200)
  THEN IF ~res.decodable
       THEN Raises("JSONDecodeError", <<>>) @@ [found |-> FALSE, retry |-> FALSE, word |-> <<>>]
       ELSE LET people == Get(res.body, "data", <<>>)
                found_line == Line(<<"People API: Found ", ToString(Len(people)),
                                     " matches for '", Str(cleaned), "'">>)
                empty_line == Line(<<"People API: 0 results for '", Str(cleaned),
                                     "'. Trying partial search...">>)
                word == FirstSegment(cleaned)
            IN IF people # <<>>
               THEN IF ~AllHaveAttributes(people)
                    THEN Raises("KeyError", <<found_line>>)
                           @@ [found |-> TRUE, retry |-> FALSE, word |-> <<>>]
                    ELSE Effect(<<Frag("Found in People Directory: ",
                                       Join(PersonNames(people), ", "))>>,
                                <<found_line>>)
                           @@ [found |-> TRUE, retry |-> FALSE, word |-> <<>>]
               ELSE IF ShouldRetry(word, cleaned)
                    THEN Effect(<<>>, <<empty_line>>)
                           @@ [found |-> FALSE, retry |-> TRUE, word |-> word]
                    ELSE Effect(<<>>,
                                <<empty_line,
                                  Line(<<"People API: Partial search skipped (query too short).">>)>>)
                           @@ [found |-> FALSE, retry |-> FALSE, word |-> word]
  ELSE IF StatusIs(res, 403)
       THEN Effect(<<Frag("ERROR: Permission Denied to People Database.", "")>>,
                   <<Line(<<"People API: 403 Forbidden (Check API Key 'People' Scope)">>)>>)
              @@ [found |-> FALSE, retry |-> FALSE, word |-> <<>>]
       ELSE Effect(<<>>, <<>>) @@ [found |-> FALSE, retry |-> FALSE, word |-> <<>>]

\* The retry reusing the primary call's label for what it found.
RetrySectionExactLabel(retry_res, word) ==
  IF StatusIs(retry_res, 200)
  THEN IF ~retry_res.decodable
       THEN Raises("JSONDecodeError", <<>>) @@ [found |-> FALSE]
       ELSE LET retry_data == Get(retry_res.body, "data", <<>>)
                found_line == Line(<<"People API: Retry found ", ToString(Len(retry_data)),
                                     " matches for '", Str(word), "'">>)
            IN IF retry_data # <<>>
               THEN IF ~AllHaveAttributes(retry_data)
                    THEN Raises("KeyError", <<found_line>>) @@ [found |-> TRUE]
                    ELSE Effect(<<Frag("Found in People Directory: ",
                                       Join(PersonNames(retry_data), ", "))>>,
                                <<found_line>>) @@ [found |-> TRUE]
               ELSE Effect(<<>>, <<Line(<<"People API: Retry also found 0 records for '",
                                          Str(word), "'.">>)>>) @@ [found |-> FALSE]
  ELSE Effect(<<>>, <<>>) @@ [found |-> FALSE]

\* The retry without line 81: a successful retry leaves no line.
RetrySectionQuiet(retry_res, word) ==
  IF StatusIs(retry_res, 200)
  THEN IF ~retry_res.decodable
       THEN Raises("JSONDecodeError", <<>>) @@ [found |-> FALSE]
       ELSE LET retry_data == Get(retry_res.body, "data", <<>>)
            IN IF retry_data # <<>>
               THEN IF ~AllHaveAttributes(retry_data)
                    THEN Raises("KeyError", <<>>) @@ [found |-> TRUE]
                    ELSE Effect(<<Frag("No exact match, but found similar names: ",
                                       Join(PersonNames(retry_data), ", "))>>,
                                <<>>) @@ [found |-> TRUE]
               ELSE Effect(<<>>, <<Line(<<"People API: Retry also found 0 records for '",
                                          Str(word), "'.">>)>>) @@ [found |-> FALSE]
  ELSE Effect(<<>>, <<>>) @@ [found |-> FALSE]

\* lines 77-85.  found says whether line 80 sets found_people.
RetrySection(retry_res, word) ==
  IF StatusIs(retry_res, 200)
  THEN IF ~retry_res.decodable
       THEN Raises("JSONDecodeError", <<>>) @@ [found |-> FALSE]
       ELSE LET retry_data == Get(retry_res.body, "data", <<>>)
                found_line == Line(<<"People API: Retry found ", ToString(Len(retry_data)),
                                     " matches for '", Str(word), "'">>)
            IN IF retry_data # <<>>
               THEN IF ~AllHaveAttributes(retry_data)
                    THEN Raises("KeyError", <<found_line>>) @@ [found |-> TRUE]
                    ELSE Effect(<<Frag("No exact match, but found similar names: ",
                                       Join(PersonNames(retry_data), ", "))>>,
                                <<found_line>>) @@ [found |-> TRUE]
               ELSE Effect(<<>>, <<Line(<<"People API: Retry also found 0 records for '",
                                          Str(word), "'.">>)>>) @@ [found |-> FALSE]
  ELSE Effect(<<>>, <<>>) @@ [found |-> FALSE]

\* data[:8] of line 100
GatheringCap == 8

\* The Gatherings section testing `res is not None` instead of the status:
\* an error response is decoded and rendered like a listing.
ServicesSectionAnyResponse(res) ==
  IF res # None
  THEN IF ~res.decodable
       THEN Raises("JSONDecodeError", <<>>)
       ELSE LET data == Get(res.body, "data", <<>>)
                line == Line(<<"Services API: Success. Found ", ToString(Len(data)),
                               " Gathering Types.">>)
            IN IF ~AllHaveAttributes(Take(data, GatheringCap))
               THEN Raises("KeyError", <<line>>)
               ELSE Effect(<<Frag("Available Gathering Types: ",
                                  Join(RecordNames(Take(data, GatheringCap)), ", "))>>,
                           <<line>>)
  ELSE Effect(<<>>, <<>>)

\* lines 96-103
ServicesSection(res) ==
  IF StatusIs(res, 200)
  THEN IF ~res.decodable
       THEN Raises("JSONDecodeError", <<>>)
       ELSE LET data == Get(res.body, "data", <<>>)
                line == Line(<<"Services API: Success. Found ", ToString(Len(data)),
                               " Gathering Types.">>)
            IN IF ~AllHaveAttributes(Take(data, GatheringCap))
               THEN Raises("KeyError", <<line>>)
               ELSE Effect(<<Frag("Available Gathering Types: ",
                                  Join(RecordNames(Take(data, GatheringCap)), ", "))>>,
                           <<line>>)
  ELSE IF StatusIs(res, 403)
       THEN Effect(<<>>, <<Line(<<"Services API: 403 Forbidden">>)>>)
       ELSE Effect(<<>>, <<>>)

\* The Calendar section appending its zero-events line to context_data
\* instead of debug_log.
CalendarSectionMixed(res) ==
  IF StatusIs(res, 200)
  THEN IF ~res.decodable
       THEN Raises("JSONDecodeError", <<>>)
       ELSE LET events == Get(res.body, "data", <<>>)
                line == Line(<<"Calendar API: Found ", ToString(Len(events)), " events.">>)
            IN IF events # <<>>
               THEN IF ~AllHaveAttributes(events)
                    THEN Raises("KeyError", <<line>>)
                    ELSE Effect(<<Frag("Found in Calendar: ",
                                       Join(RecordNames(events), ", "))>>, <<line>>)
               ELSE Effect(<<Frag("Calendar API: 0 events found.", "")>>, <<>>)
  ELSE Effect(<<>>, <<>>)

\* lines 107-114
CalendarSection(res) ==
  IF StatusIs(res, 200)
  THEN IF ~res.decodable
       THEN Raises("JSONDecodeError", <<>>)
       ELSE LET events == Get(res.body, "data", <<>>)
                line == Line(<<"Calendar API: Found ", ToString(Len(events)), " events.">>)
            IN IF events # <<>>
               THEN IF ~AllHaveAttributes(events)
                    THEN Raises("KeyError", <<line>>)
                    ELSE Effect(<<Frag("Found in Calendar: ",
                                       Join(RecordNames(events), ", "))>>, <<line>>)
               ELSE Effect(<<>>, <<Line(<<"Calendar API: 0 events found.">>)>>)
  ELSE Effect(<<>>, <<>>)

\* lines 118-123
GroupsSection(res) ==
  IF StatusIs(res, 200)
  THEN IF ~res.decodable
       THEN Raises("JSONDecodeError", <<>>)
       ELSE LET groups == Get(res.body, "data", <<>>)
                line == Line(<<"Groups API: Found ", ToString(Len(groups)), " groups.">>)
            IN IF groups # <<>>
               THEN IF ~AllHaveAttributes(groups)
                    THEN Raises("KeyError", <<line>>)
                    ELSE Effect(<<Frag("Found in Groups: ",
                                       Join(RecordNames(groups), ", "))>>, <<line>>)
               ELSE Effect(<<>>, <<>>)
  ELSE Effect(<<>>, <<>>)

\* line 129
Sentinel == "No specific data found in People, Services, Calendar, or Groups for this query."

\* lines 126-131: the pair search_context returns
FinalOutput(context, log) ==
  LET final_output == Join(FragTexts(context), "\n")
  IN [final_output |-> IF final_output = "" THEN Sentinel ELSE final_output,
      debug |-> Join(Texts(log), "\n")]

----------------------------------------------------------------------------
\* The requests search_context hands to pco_api_call

\* line 50
OrgRequest == [endpoint |-> "/", params |-> None]

\* lines 59 and 76
PeopleRequest(name, per_page) ==
  [endpoint |-> "/people/v2/people",
   params |-> [search_name_or_email |-> name, per_page |-> per_page]]

\* line 95
ServicesRequest == [endpoint |-> "/services/v2/service_types", params |-> None]

\* The Calendar call sent to the Groups endpoint.
CalendarRequestToGroups(name) ==
  [endpoint |-> "/groups/v2/groups", params |-> [name |-> name, per_page |-> 3]]

\* line 106
CalendarRequest(name) ==
  [endpoint |-> "/calendar/v2/events", params |-> [name |-> name, per_page |-> 3]]

\* line 117
GroupsRequest(name) ==
  [endpoint |-> "/groups/v2/groups", params |-> [name |-> name, per_page |-> 3]]

\* list.insert(0, ...) instead of list.append
PrependAll(list, items) == items \o list

\* list.append of each item in turn
AppendAll(list, items) == list \o items

----------------------------------------------------------------------------
\* The state machine: a run blocks in requests.get between two actions

NoResult == [pending |-> TRUE]

TypeOK ==
  /\ pc \in [Runs -> {"idle", "call", "org", "people", "retry", "services",
                      "calendar", "groups", "done", "raised"}]
  /\ found_people \in [Runs -> BOOLEAN]
  /\ \A r \in Runs : Len(results[r]) <= Len(calls[r])

\* One session has called search_context(query); the other is not running.
Init ==
  /\ pc = [r \in Runs |-> IF r = "s1" THEN "call" ELSE "idle"]
  /\ \E q \in Queries : query = [r \in Runs |-> IF r = "s1" THEN q ELSE <<>>]
  /\ clean_query = [r \in Runs |-> <<>>]
  /\ first_word = [r \in Runs |-> <<>>]
  /\ found_people = [r \in Runs |-> FALSE]
  /\ context_data = [r \in Runs |-> <<>>]
  /\ debug_log = [r \in Runs |-> <<>>]
  /\ calls = [r \in Runs |-> <<>>]
  /\ results = [r \in Runs |-> <<>>]
  /\ ret = [r \in Runs |-> NoResult]

\* debug_log kept in one module-level list that every running call appends to.
ProceedSharedLog(r, res, e, next, req) ==
  /\ results' = [results EXCEPT ![r] = Append(@, res)]
  /\ debug_log' = [x \in Runs |-> AppendAll(debug_log[x], e.lines)]
  /\ context_data' = [context_data EXCEPT ![r] = AppendAll(@, e.frags)]
  /\ IF e.exc # ""
     THEN /\ pc' = [pc EXCEPT ![r] = "raised"]
          /\ ret' = [ret EXCEPT ![r] = [exc |-> e.exc]]
          /\ calls' = calls
     ELSE /\ pc' = [pc EXCEPT ![r] = next]
          /\ calls' = [calls EXCEPT ![r] = Append(@, req)]
          /\ ret' = ret

\* What every section does once pco_api_call has returned res and the
\* section's effect e is known: append its lines, then either propagate its
\* exception to the caller or go on to the next call with request req.
Proceed(r, res, e, next, req) ==
  /\ results' = [results EXCEPT ![r] = Append(@, res)]
  /\ debug_log' = [debug_log EXCEPT ![r] = AppendAll(@, e.lines)]
  /\ context_data' = [context_data EXCEPT ![r] = AppendAll(@, e.frags)]
  /\ IF e.exc # ""
     THEN /\ pc' = [pc EXCEPT ![r] = "raised"]
          /\ ret' = [ret EXCEPT ![r] = [exc |-> e.exc]]
          /\ calls' = calls
     ELSE /\ pc' = [pc EXCEPT ![r] = next]
          /\ calls' = [calls EXCEPT ![r] = Append(@, req)]
          /\ ret' = ret

\* debug_log kept in a module-level list that is never cleared: a call
\* starts with the lines the first session's call left in it.
BeginStaleLog(r) ==
  /\ pc[r] = "call"
  /\ context_data' = [context_data EXCEPT ![r] = <<>>]
  /\ debug_log' = [debug_log EXCEPT ![r] = debug_log["s1"]]
  /\ clean_query' = [clean_query EXCEPT ![r] = Strip(query[r])]
  /\ calls' = [calls EXCEPT ![r] = Append(@, OrgRequest)]
  /\ pc' = [pc EXCEPT ![r] = "org"]
  /\ UNCHANGED <<query, first_word, found_people, results, ret>>

\* lines 43-50: the locals are set up and the probe is sent
Begin(r) ==
  /\ pc[r] = "call"
  /\ context_data' = [context_data EXCEPT ![r] = <<>>]
  /\ debug_log' = [debug_log EXCEPT ![r] = <<>>]
  /\ clean_query' = [clean_query EXCEPT ![r] = Strip(query[r])]
  /\ calls' = [calls EXCEPT ![r] = Append(@, OrgRequest)]
  /\ pc' = [pc EXCEPT ![r] = "org"]
  /\ UNCHANGED <<query, first_word, found_people, results, ret>>

\* lines 50-59: the probe returns, the People call is sent
OrgCheck(r) ==
  /\ pc[r] = "org"
  /\ \E net \in OrgNetwork :
       LET org_res == pco_api_call(net)
       IN Proceed(r, org_res, OrgSection(org_res), "people",
                  PeopleRequest(clean_query[r], 5))
  /\ UNCHANGED <<query, clean_query, first_word, found_people>>

\* lines 59-95: the People call returns; the retry or the Gatherings call is sent
SearchPeople(r) ==
  /\ pc[r] = "people"
  /\ \E net \in PeopleNetwork :
       LET res == pco_api_call(net)
           e == PeopleSection(res, clean_query[r])
       IN /\ found_people' = [found_people EXCEPT ![r] = e.found]
          /\ first_word' = [first_word EXCEPT ![r] = e.word]
          /\ IF e.retry
             THEN Proceed(r, res, e, "retry", PeopleRequest(e.word, 3))
             ELSE Proceed(r, res, e, "services", ServicesRequest)
  /\ UNCHANGED <<query, clean_query>>

\* lines 76-95: the retry returns, the Gatherings call is sent
RetryPeople(r) ==
  /\ pc[r] = "retry"
  /\ \E net \in PeopleNetwork :
       LET retry_res == pco_api_call(net)
           e == RetrySection(retry_res, first_word[r])
       IN /\ found_people' = [found_people EXCEPT ![r] = e.found]
          /\ Proceed(r, retry_res, e, "services", ServicesRequest)
  /\ UNCHANGED <<query, clean_query, first_word>>

\* lines 95-106: the Gatherings call returns, the Calendar call is sent
SearchServices(r) ==
  /\ pc[r] = "services"
  /\ \E net \in ServicesNetwork :
       LET res == pco_api_call(net)
       IN Proceed(r, res, ServicesSection(res), "calendar", CalendarRequest(clean_query[r]))
  /\ UNCHANGED <<query, clean_query, first_word, found_people>>

\* lines 106-117: the Calendar call returns, the Groups call is sent
SearchCalendar(r) ==
  /\ pc[r] = "calendar"
  /\ \E net \in ListingNetwork :
       LET res == pco_api_call(net)
       IN Proceed(r, res, CalendarSection(res), "groups", GroupsRequest(clean_query[r]))
  /\ UNCHANGED <<query, clean_query, first_word, found_people>>

\* lines 117-131: the Groups call returns, search_context returns its pair
SearchGroups(r) ==
  /\ pc[r] = "groups"
  /\ \E net \in ListingNetwork :
       LET res == pco_api_call(net)
           e == GroupsSection(res)
       IN /\ results' = [results EXCEPT ![r] = Append(@, res)]
          /\ debug_log' = [debug_log EXCEPT ![r] = AppendAll(@, e.lines)]
          /\ context_data' = [context_data EXCEPT ![r] = AppendAll(@, e.frags)]
          /\ IF e.exc # ""
             THEN /\ pc' = [pc EXCEPT ![r] = "raised"]
                  /\ ret' = [ret EXCEPT ![r] = [exc |-> e.exc]]
             ELSE /\ pc' = [pc EXCEPT ![r] = "done"]
                  /\ ret' = [ret EXCEPT ![r] =
                               FinalOutput(context_data'[r], debug_log'[r])]
  /\ UNCHANGED <<query, clean_query, first_word, found_people, calls>>

Next ==
  \E r \in Runs :
    \/ Begin(r)
    \/ OrgCheck(r)
    \/ SearchPeople(r)
    \/ RetryPeople(r)
    \/ SearchServices(r)
    \/ SearchCalendar(r)
    \/ SearchGroups(r)

Spec == Init /\ [][Next]_vars

----------------------------------------------------------------------------
\* Vocabulary of the properties

\* Which of the six calls a request is
Kind(req) ==
  CASE req.endpoint = "/" -> "org"
    [] req.endpoint = "/people/v2/people" ->
         IF req.params.per_page = 5 THEN "people" ELSE "retry"
    [] req.endpoint = "/services/v2/service_types" -> "services"
    [] req.endpoint = "/calendar/v2/events" -> "calendar"
    [] req.endpoint = "/groups/v2/groups" -> "groups"
    [] OTHER -> "other"

Kinds(r) == [i \in 1..Len(calls[r]) |-> Kind(calls[r][i])]

Count(r, k) == Cardinality({i \in 1..Len(calls[r]) : Kind(calls[r][i]) = k})

\* The call of kind k has returned
Returned(r, k) == \E i \in 1..Len(results[r]) : Kind(calls[r][i]) = k

\* Some returned call of kind k had an outcome satisfying P
Outcome(r, k, P(_)) ==
  \E i \in 1..Len(results[r]) : Kind(calls[r][i]) = k /\ P(results[r][i])

\* The Backend Outcomes of the specification
TransportFailure(res) == res = None
AuthDenied(res) == res # None /\ res.status_code = 403
UnexpectedStatus(res) == res # None /\ res.status_code \notin {200, 403}
Malformed(res) == res # None /\ res.status_code = 200 /\ ~res.decodable
EmptyOk(res) ==
  /\ res # None /\ res.status_code = 200 /\ res.decodable
  /\ Get(res.body, "data", <<>>) = <<>>
Failed(res) == TransportFailure(res) \/ AuthDenied(res) \/ UnexpectedStatus(res)
EmptyOrTransportFailure(res) == EmptyOk(res) \/ TransportFailure(res)

Ended(r) == pc[r] \in {"done", "raised"}

\* The labels of the Context Fragments, by adapter
PeopleLabels == {"Found in People Directory: ", "No exact match, but found similar names: ",
                 "ERROR: Permission Denied to People Database."}
LabelsOf(k) ==
  CASE k = "people" -> PeopleLabels
    [] k = "services" -> {"Available Gathering Types: "}
    [] k = "calendar" -> {"Found in Calendar: "}
    [] k = "groups" -> {"Found in Groups: "}
Adapters == {"people", "services", "calendar", "groups"}
FragmentLabels == UNION {LabelsOf(k) : k \in Adapters}

\* The fragment labels that contain the marker substring "ERROR"
ErrorLabels == {"ERROR: Permission Denied to People Database."}

HasFragment(r, labels) ==
  \E i \in 1..Len(context_data[r]) : context_data[r][i].label \in labels

\* The Diagnostic Lines, by their literal text
DiagnosticMsgs ==
  { "Connected to Organization: **{}**",
    "Org Check: Failed to connect to PCO Root.",
    "People API: Found {} matches for '{}'",
    "People API: 0 results for '{}'. Trying partial search...",
    "People API: Partial search skipped (query too short).",
    "People API: 403 Forbidden (Check API Key 'People' Scope)",
    "People API: Retry found {} matches for '{}'",
    "People API: Retry also found 0 records for '{}'.",
    "Services API: Success. Found {} Gathering Types.",
    "Services API: 403 Forbidden",
    "Calendar API: Found {} events.",
    "Calendar API: 0 events found.",
    "Groups API: Found {} groups." }

HasLine(r, msg) == \E i \in 1..Len(debug_log[r]) : debug_log[r][i].msg = msg

IsPrefix(s, t) == Len(s) <= Len(t) /\ SubSeq(t, 1, Len(s)) = s

----------------------------------------------------------------------------
\* C1: for every query and every combination of backend outcomes, a
\* malformed 200 payload included, search_context never raises to its caller
\* and returns a pair (Context String, Diagnostic Trace).
C1_NeverRaises ==
  \A r \in Runs :
    /\ pc[r] # "raised"
    /\ pc[r] = "done" => DOMAIN ret[r] = {"final_output", "debug"}

\* C2: search_context never short-circuits: whatever the outcome of an
\* earlier call, a run that has ended has issued the probe, the People
\* primary call, the Gatherings call, the Calendar call and the Groups call
\* exactly once each.
C2_EveryCallIssuedOnce ==
  \A r \in Runs :
    Ended(r) =>
      \A k \in {"org", "people", "services", "calendar", "groups"} : Count(r, k) = 1

\* C3: the People retry call (filter = First Token, page size 3) is issued if
\* and only if the People primary call returned a successful response with
\* zero records, the First Token of the trimmed query is longer than 2 and
\* differs from the Cleaned Query; in every other case no retry is issued.
C3_RetryIff ==
  \A r \in Runs :
    LET cleaned == Strip(query[r])
        token == FirstSegment(cleaned)
    IN /\ Count(r, "retry") = 1
            <=> /\ Outcome(r, "people", EmptyOk)
                /\ Len(token) > 2
                /\ token # cleaned
       /\ Count(r, "retry") <= 1
       /\ \A i \in 1..Len(calls[r]) :
            Kind(calls[r][i]) = "retry" =>
              calls[r][i].params = [search_name_or_email |-> token, per_page |-> 3]

\* C3's case: a run returned after a retry call, for a query that strip()
\* shortened.
C3_Witness ==
  /\ pc["s1"] = "done"
  /\ Count("s1", "retry") = 1
  /\ Len(query["s1"]) > Len(clean_query["s1"])

\* C4: whenever the People primary call's outcome is AuthDenied (HTTP 403),
\* the returned Context String contains a fragment with the marker "ERROR"
\* and the Diagnostic Trace contains the People-forbidden line.
C4_AuthDeniedIsFlagged ==
  \A r \in Runs :
    (pc[r] = "done" /\ Outcome(r, "people", AuthDenied)) =>
      /\ HasFragment(r, ErrorLabels)
      /\ HasLine(r, "People API: 403 Forbidden (Check API Key 'People' Scope)")

\* Every adapter call of the run (every call but the probe) that has
\* returned gave zero records or failed in transport.
AllEmptyOrTransportFailure(r) ==
  \A i \in 2..Len(results[r]) : EmptyOrTransportFailure(results[r][i])

\* C5: if every adapter call returns a successful response with zero records
\* or a transport failure, the returned Context String is the no-data
\* sentinel.
C5_NoDataSentinel ==
  \A r \in Runs :
    (pc[r] = "done" /\ AllEmptyOrTransportFailure(r)) =>
      ret[r].final_output = Sentinel

\* C6: if every adapter call returns a successful response with zero records
\* or a transport failure, the Diagnostic Trace has exactly one line per
\* backend call issued in the run.
C6_OneLinePerCall ==
  \A r \in Runs :
    (pc[r] = "done" /\ AllEmptyOrTransportFailure(r)) =>
      Len(debug_log[r]) = Len(calls[r])

C8_DisjointStreams ==
  \A r \in Runs :
    /\ \A i \in 1..Len(context_data[r]) : context_data[r][i].label \in FragmentLabels
    /\ \A j \in 1..Len(debug_log[r]) : debug_log[r][j].msg \in DiagnosticMsgs
    /\ \A i \in 1..Len(context_data[r]) : \A j \in 1..Len(debug_log[r]) :
         FragText(context_data[r][i]) # debug_log[r][j].text
    /\ pc[r] = "done" =>
         /\ ret[r].final_output \in {Sentinel, Join(FragTexts(context_data[r]), "\n")}
         /\ ret[r].debug = Join(Texts(debug_log[r]), "\n")

\* C8's case: a run returned with several fragments and several lines.
C8_Witness ==
  /\ pc["s1"] = "done"
  /\ Len(context_data["s1"]) >= 3
  /\ Len(debug_log["s1"]) >= 5
  /\ HasLine("s1", "Calendar API: 0 events found.")

\* The two orders in which a run may issue its calls
CallOrders ==
  { <<"org", "people", "retry", "services", "calendar", "groups">>,
    <<"org", "people", "services", "calendar", "groups">> }

\* C9: a run issues at most 6 backend calls, in the fixed order probe,
\* People primary, People retry (optional), Gatherings, Calendar, Groups,
\* each call starting only after the previous one has returned, with at most
\* one retry.
C9_SixCallsInOrder ==
  \A r \in Runs :
    /\ Len(calls[r]) <= 6
    /\ \E order \in CallOrders : IsPrefix(Kinds(r), order)
    /\ Count(r, "retry") <= 1
    /\ Len(results[r]) <= Len(calls[r])
    /\ Len(calls[r]) <= Len(results[r]) + 1

\* C9's case: a run returned after all six calls.
C9_Witness ==
  /\ pc["s1"] = "done"
  /\ Len(calls["s1"]) = 6
  /\ Len(results["s1"]) = 6

\* The adapter a fragment comes from, by invocation order
Rank(label) ==
  CASE label \in PeopleLabels -> 1
    [] label = "Available Gathering Types: " -> 2
    [] label = "Found in Calendar: " -> 3
    [] label = "Found in Groups: " -> 4
    [] OTHER -> 0

\* C10: the fragments of the Context String are in adapter invocation order
\* People, Gatherings, Calendar, Groups: those present are a subsequence of
\* that order, and the returned string joins them in it.
C10_FragmentOrder ==
  \A r \in Runs :
    /\ \A i, j \in 1..Len(context_data[r]) :
         i < j => /\ Rank(context_data[r][i].label) > 0
                  /\ Rank(context_data[r][i].label) < Rank(context_data[r][j].label)
    /\ (pc[r] = "done" /\ context_data[r] # <<>>) =>
         ret[r].final_output = Join(FragTexts(context_data[r]), "\n")

\* C10's case: a run returned with a fragment of each of the four adapters.
C10_Witness ==
  /\ pc["s1"] = "done"
  /\ Len(context_data["s1"]) = 4
  /\ \A k \in Adapters : HasFragment("s1", LabelsOf(k))

----------------------------------------------------------------------------
\* Two calls in a row with the same query against an unchanged backend.  Run
\* "s1" is the first call and run "s2" the second, made once the first has
\* ended; the backend answers a request of the second call as it answered
\* the same request of the first.

RepeatQueries ==
  { <<"X">>,
    <<" ", "A", "l", "e", "x", " ", " ", "M", " ">> }

InitTwice ==
  /\ Init
  /\ query["s1"] \in RepeatQueries

\* line 173, a second time: search_context is called again with the same prompt
CallAgain ==
  /\ pc["s1"] \in {"done", "raised"}
  /\ pc["s2"] = "idle"
  /\ pc' = [pc EXCEPT !["s2"] = "call"]
  /\ query' = [query EXCEPT !["s2"] = query["s1"]]
  /\ UNCHANGED <<clean_query, first_word, found_people, context_data, debug_log,
                 calls, results, ret>>

\* The backend is unchanged: equal requests got equal answers
SameAnswers ==
  \A i \in 1..Len(results["s2"]) : \A j \in 1..Len(results["s1"]) :
    calls["s2"][i] = calls["s1"][j] => results["s2"][i] = results["s1"][j]

StepTwice == Next /\ SameAnswers'

NextTwice == CallAgain \/ StepTwice

SpecTwice == InitTwice /\ [][NextTwice]_vars

\* C11: search_context is deterministic and keeps no state between calls:
\* a second call with the same query against a backend that answers the
\* same way repeats the first step by step and ends as it did, with an
\* identical Context String and an identical Diagnostic Trace, after the
\* same requests.
C11_SameTwice ==
  /\ pc["s2"] \notin {"idle", "call"} =>
       /\ IsPrefix(calls["s2"], calls["s1"])
       /\ IsPrefix(context_data["s2"], context_data["s1"])
       /\ IsPrefix(debug_log["s2"], debug_log["s1"])
  /\ Ended("s2") =>
       /\ ret["s2"] = ret["s1"]
       /\ calls["s2"] = calls["s1"]
       /\ context_data["s2"] = context_data["s1"]
       /\ debug_log["s2"] = debug_log["s1"]

\* C11's case: both calls returned, with fragments and after a retry.
C11_Witness ==
  /\ pc["s1"] = "done" /\ pc["s2"] = "done"
  /\ Count("s2", "retry") = 1
  /\ Len(context_data["s2"]) >= 2
  /\ Len(debug_log["s2"]) >= 4

----------------------------------------------------------------------------
\* The two lines of the organization probe
ProbeSuccessMsg == "Connected to Organization: **{}**"
ProbeFailureMsg == "Org Check: Failed to connect to PCO Root."
ProbeMsgs == {ProbeSuccessMsg, ProbeFailureMsg}

ProbeLines(r) == {i \in 1..Len(debug_log[r]) : debug_log[r][i].msg \in ProbeMsgs}

Ok200(res) == res # None /\ res.status_code = 200 /\ res.decodable

----------------------------------------------------------------------------
\* The lines and fragments of the People adapter
PrimaryEmptyMsg == "People API: 0 results for '{}'. Trying partial search..."
RetryFoundMsg == "People API: Retry found {} matches for '{}'"
RetryEmptyMsg == "People API: Retry also found 0 records for '{}'."
RetrySkippedMsg == "People API: Partial search skipped (query too short)."
ExactLabel == "Found in People Directory: "
SimilarLabel == "No exact match, but found similar names: "

AlSmith == <<"A", "l", " ", "S", "m", "i", "t", "h">>
AlexMiller == <<"A", "l", "e", "x", " ", "M", "i", "l", "l", "e", "r">>

\* The fragments of the People adapter in context_data, in order
PeopleFragments(r) ==
  SelectSeq(context_data[r], LAMBDA f : f.label \in PeopleLabels)

\* Line msg1 is in the trace, immediately followed by line msg2
Adjacent(r, msg1, msg2) ==
  \E i \in 1..(Len(debug_log[r]) - 1) :
    debug_log[r][i].msg = msg1 /\ debug_log[r][i + 1].msg = msg2

\* Line msg1 is in the trace, and line msg2 somewhere after it
InOrder(r, msg1, msg2) ==
  \E i, j \in 1..Len(debug_log[r]) :
    i < j /\ debug_log[r][i].msg = msg1 /\ debug_log[r][j].msg = msg2

\* The response carries exactly the one record Al Smith (Member)
OneRecord(res) == Ok200(res) /\ Get(res.body, "data", <<>>) = <<pAl>>

\* The backend answered every retry request of the run with that one record
RetryAnsweredOneRecord(r) ==
  \A i \in 1..Len(results[r]) : Kind(calls[r][i]) = "retry" => OneRecord(results[r][i])

\* What C13 expects of a returned run
RetryFragmentAndLines(r) ==
  /\ PeopleFragments(r) = <<Frag(SimilarLabel, "Al Smith (Member)")>>
  /\ InOrder(r, PrimaryEmptyMsg, RetryFoundMsg)

\* C13 as stated: given the query "Al Smith" with the People primary call
\* returning zero records and the retry answered with one record, the
\* Context String has the inexact-match fragment of that record and the
\* trace has the empty-primary line, then the retry-success line.
C13_AlSmithRetry ==
  \A r \in Runs :
    (/\ pc[r] = "done"
     /\ query[r] = AlSmith
     /\ Outcome(r, "people", EmptyOk)
     /\ RetryAnsweredOneRecord(r)) => RetryFragmentAndLines(r)

\* C13 amended: the same for the query "Alex Miller", whose first token is
\* longer than 2 characters.
C13_AlexMillerRetry ==
  \A r \in Runs :
    (/\ pc[r] = "done"
     /\ query[r] = AlexMiller
     /\ Outcome(r, "people", EmptyOk)
     /\ RetryAnsweredOneRecord(r)) =>
       /\ Count(r, "retry") = 1
       /\ RetryFragmentAndLines(r)

\* C13's case: "Alex Miller" returned after an empty primary call and a
\* retry answered with one record.
C13_Witness ==
  /\ pc["s1"] = "done"
  /\ query["s1"] = AlexMiller
  /\ Outcome("s1", "people", EmptyOk)
  /\ Outcome("s1", "retry", OneRecord)

----------------------------------------------------------------------------
HasRecords(res) == Ok200(res) /\ Get(res.body, "data", <<>>) # <<>>

\* The position of the retry among the calls of the run, or 0
RetryIndex(r) ==
  IF Count(r, "retry") = 0 THEN 0
  ELSE CHOOSE i \in 1..Len(calls[r]) : Kind(calls[r][i]) = "retry"

\* The retry section has run to its end: the next call has been issued
RetryHandled(r) == RetryIndex(r) > 0 /\ Len(calls[r]) > RetryIndex(r)

----------------------------------------------------------------------------
\* The retry has returned
RetryReturned(r) == RetryIndex(r) > 0 /\ Len(results[r]) >= RetryIndex(r)

\* C15: when the retry is issued and returns zero records or fails (403,
\* other non-200 status, transport failure), no People fragment is added and
\* the trace gains the line recording that the retry also failed.
C15_DoubleFailureLine ==
  \A r \in Runs :
    (/\ RetryReturned(r)
     /\ \/ Outcome(r, "retry", EmptyOk)
        \/ Outcome(r, "retry", Failed)) =>
      /\ ~HasFragment(r, PeopleLabels)
      /\ HasLine(r, RetryEmptyMsg)

----------------------------------------------------------------------------
\* C16: when the People primary call returns zero records and the retry
\* precondition fails (First Token of length <= 2, or equal to the Cleaned
\* Query), no retry call is issued, no People fragment is added, and the
\* trace has the retry-skipped line right after the primary-empty line.
C16_RetrySkipped ==
  \A r \in Runs :
    LET cleaned == Strip(query[r])
        token == FirstSegment(cleaned)
    IN (Outcome(r, "people", EmptyOk) /\ (Len(token) <= 2 \/ token = cleaned)) =>
         /\ Count(r, "retry") = 0
         /\ ~HasFragment(r, PeopleLabels)
         /\ Adjacent(r, PrimaryEmptyMsg, RetrySkippedMsg)
         /\ ~HasLine(r, RetryFoundMsg) /\ ~HasLine(r, RetryEmptyMsg)

\* C16's case: the query "X" returned after an empty People primary call.
C16_Witness ==
  /\ pc["s1"] = "done"
  /\ query["s1"] = <<"X">>
  /\ Outcome("s1", "people", EmptyOk)
  /\ HasLine("s1", RetrySkippedMsg)

----------------------------------------------------------------------------
\* The lines of the Calendar and of the Groups adapter
AdapterMsgs(k) ==
  CASE k = "calendar" -> {"Calendar API: Found {} events.", "Calendar API: 0 events found."}
    [] k = "groups" -> {"Groups API: Found {} groups."}

AdapterLines(r, k) ==
  SelectSeq(debug_log[r], LAMBDA l : l.msg \in AdapterMsgs(k))

AdapterFragments(r, k) ==
  SelectSeq(context_data[r], LAMBDA f : f.label \in LabelsOf(k))

\* C17: the Calendar and the Groups adapter have the same shape: a
\* successful response with records adds one fragment and one line, a
\* successful response with zero records adds one line and no fragment, and
\* neither adapter issues a second call.
C17_SameShape ==
  \A r \in Runs : \A k \in {"calendar", "groups"} :
    pc[r] = "done" =>
      /\ Count(r, k) = 1
      /\ Outcome(r, k, HasRecords) =>
           Len(AdapterFragments(r, k)) = 1 /\ Len(AdapterLines(r, k)) = 1
      /\ Outcome(r, k, EmptyOk) =>
           Len(AdapterFragments(r, k)) = 0 /\ Len(AdapterLines(r, k)) = 1

----------------------------------------------------------------------------
\* Two sessions call search_context at the same time with different queries;
\* their steps interleave in every order.

InitConc ==
  /\ pc = [r \in Runs |-> "call"]
  /\ query = [r \in Runs |-> IF r = "s1" THEN AlexMiller ELSE AlSmith]
  /\ clean_query = [r \in Runs |-> <<>>]
  /\ first_word = [r \in Runs |-> <<>>]
  /\ found_people = [r \in Runs |-> FALSE]
  /\ context_data = [r \in Runs |-> <<>>]
  /\ debug_log = [r \in Runs |-> <<>>]
  /\ calls = [r \in Runs |-> <<>>]
  /\ results = [r \in Runs |-> <<>>]
  /\ ret = [r \in Runs |-> NoResult]

\* The backend outcomes of the concurrent runs: a call times out or answers
\* 200 with one of these bodies.
ConcAnswer(k, res) ==
  \/ res = None
  \/ k = "org" /\ res = Json(200, [data |-> [attributes |-> [name |-> "GO Church"]]])
  \/ k \in {"people", "retry"} /\ res \in {Json(200, [data |-> <<>>]), Json(200, [data |-> <<pAl>>])}
  \/ k = "services" /\ res = Json(200, [data |-> NineTypes])
  \/ k \in {"calendar", "groups"} /\ res = Json(200, [data |-> <<Named("Easter"), Unnamed>>])

ConcAnswers ==
  \A r \in Runs : \A i \in 1..Len(results[r]) :
    ConcAnswer(Kind(calls[r][i]), results[r][i])

StepConc == Next /\ ConcAnswers'

SpecConc == InitConc /\ [][StepConc]_vars

\* search_context(q) executed alone, after its calls have returned outs in
\* this order: the fragments and lines it has collected.
Nothing == Effect(<<>>, <<>>)

RunAlone(q, outs) ==
  LET cleaned == Strip(q)
      n == Len(outs)
      e1 == IF n >= 1 THEN OrgSection(outs[1]) ELSE Nothing
      e2 == IF n >= 2 THEN PeopleSection(outs[2], cleaned) ELSE Nothing
      k == IF n >= 2 /\ e2.retry THEN 1 ELSE 0
      e3 == IF k = 1 /\ n >= 3 THEN RetrySection(outs[3], e2.word) ELSE Nothing
      e4 == IF n >= 3 + k THEN ServicesSection(outs[3 + k]) ELSE Nothing
      e5 == IF n >= 4 + k THEN CalendarSection(outs[4 + k]) ELSE Nothing
      e6 == IF n >= 5 + k THEN GroupsSection(outs[5 + k]) ELSE Nothing
  IN [frags |-> e1.frags \o e2.frags \o e3.frags \o e4.frags \o e5.frags \o e6.frags,
      lines |-> e1.lines \o e2.lines \o e3.lines \o e4.lines \o e5.lines \o e6.lines]

\* C18: concurrent runs of search_context for different queries are
\* isolated: under every interleaving, each run's fragments and lines, and
\* the Context String and Diagnostic Trace it returns, are those the run
\* produces executed alone against the same backend outcomes.
C18_Isolated ==
  \A r \in Runs :
    pc[r] \notin {"idle", "call"} =>
      LET alone == RunAlone(query[r], results[r])
      IN /\ context_data[r] = alone.frags
         /\ debug_log[r] = alone.lines
         /\ pc[r] = "done" => ret[r] = FinalOutput(alone.frags, alone.lines)

\* C18's case: one run has returned while the other, which has already
\* collected lines and a fragment of its own, is still waiting for a call.
C18_Witness ==
  /\ pc["s1"] = "done" /\ Count("s1", "retry") = 1
  /\ pc["s2"] = "groups" /\ Len(debug_log["s2"]) >= 3 /\ Len(context_data["s2"]) >= 1
  /\ debug_log["s1"] # debug_log["s2"]

----------------------------------------------------------------------------
\* C19: a record that lacks an expected field, the attributes mapping
\* included, is rendered with its default label and never makes the search
\* fail: no run ends with the KeyError of a missing field.
C19_MissingFieldNeverFails ==
  \A r \in Runs : pc[r] = "raised" => ret[r].exc # "KeyError"

----------------------------------------------------------------------------
\* C20: in every run there is at most one People fragment (exact-match,
\* similar-names or permission-denied), found_people is true exactly when
\* the exact-match or the similar-names fragment was appended, and it is
\* false when the People call was denied.
C20_OnePeopleContribution ==
  \A r \in Runs :
    /\ Len(PeopleFragments(r)) <= 1
    /\ found_people[r] <=> HasFragment(r, {ExactLabel, SimilarLabel})
    /\ Outcome(r, "people", AuthDenied) => ~found_people[r]

====
